---- MODULE Spec2Model ----
(***************************************************************************)
(* State-machine model of live-vlm-webui:                                  *)
(*   - the frame path (VideoProcessorTrack.recv) and the inference service *)
(*     it feeds (video_processor.py, server.py);                           *)
(*   - the hardware statistics collectors (gpu_monitor.py).                *)
(* The two halves share no state; each has its own specification.          *)
(***************************************************************************)
EXTENDS Integers, Sequences, FiniteSets, TLC

(***************************************************************************)
(* Bounds of the model                                                     *)
(***************************************************************************)
\* number of video tracks that may be attached
MaxTracks == 2
\* total number of frames the source tracks deliver, over all tracks
MaxFrames == 61
\* number of get_stats() polls of the collector
MaxPolls == 4
\* largest history capacity a collector is constructed with
MaxHistorySize == 2
MaxCleanups == 2
MaxLines == 2

\* WebSocket connections opened, and failed sends one connection is followed through
MaxSockets == 2
MaxFailedSends == 2

\* peer connections created
MaxPeers == 2

(***************************************************************************)
(* Program constants                                                       *)
(***************************************************************************)
\* self.process_every_n_frames = 30 in VideoProcessorTrack.__init__
process_every_n_frames_default == 30

\* values of --process-every tried by main()
ProcessEveryArgs == {2, 30}

Tracks == 1..MaxTracks

\* identity of the one VLMService object main() creates
GlobalService == 0
ServiceIds == {GlobalService} \cup Tracks

\* texts are numbers: InitialText before any result, ErrorText an error string
InitialText == 0
ErrorText == -1

VARIABLES
    main_done,        \* main() has run (service created, class attribute set)
    class_every,      \* VideoProcessorTrack.process_every_n_frames (class attribute), 0 = unset
    track,            \* per track: created, frame_count, process_every_n_frames (instance)
    svc,              \* per service object: current_response, is_processing
    tasks,            \* process_frame tasks created and not yet started, in creation order
    inflight,         \* inference calls started and not completed
    finished,         \* tasks that ended: skipped, ok, failed
    last_good,        \* per service: text of the last successful inference
    last_update,      \* last invocation of text_callback, with what was true at the read
    recv_result,      \* how the last recv() ended: "none", "frame", "raised"
    delivered,        \* the frame the last recv() that returned has returned, and on which track
    mon,              \* the collector object: class, flags, counters
    history,          \* its four deques
    polls,            \* number of get_stats() calls made
    backend_calls,    \* number of get_stats() calls that queried the accelerator backend
    successes,        \* samples of the polls whose query succeeded, in order
    query_failed,     \* poll at which a query failure happened, with backend_calls then
    last_stats,       \* the snapshot the last get_stats() returned
    last_sys,         \* what the CPU/RAM read of the last get_stats() gave
    error_log,        \* one entry per logger.error line of the accelerator path: the poll that wrote it
    last_sensors,     \* what the backend supplied in the last poll: temperature, power,
                      \* and in the sysfs sub-mode the GPC counters and the NVD percentage
    construction,     \* how the constructor ended: "none", "ok", "init_failed", "raised"
    escaped,          \* an exception left the last get_stats/get_history/cleanup call
    held,             \* what a caller holds from an earlier get_history()
    cleanups,         \* number of cleanup() calls made
    release_calls,    \* the calls that release the backend handle: how many, whether one
                      \* failed, whether one followed another with no poll in between,
                      \* and the number of polls made before the last one
    request,          \* the arguments and probe results of the create_monitor call
    cpu_probe,        \* the last get_cpu_model() call: what the host offered, what came back
    other,            \* a second collector object: its flags and counters, its deques, its polls
    websockets,       \* server.websockets: the connections in the active set
    ws,               \* per WebSocket: where its handler stands, how it left, whether its
                      \* transport still works, broadcast sends to it that failed
    pcs,              \* server.pcs
    pc,               \* per peer connection: created, connectionState, close() done,
                      \* a connectionstatechange handler waiting to run
    shutdown          \* on_shutdown: its phase and the close() calls it has collected

poll_record_vars == <<error_log, last_sensors>>

lifecycle_vars == <<held, cleanups, release_calls>>

vars == <<main_done, class_every, track, svc, tasks, inflight, finished,
          last_good, last_update, recv_result, delivered,
          mon, history, polls, backend_calls, successes, query_failed, last_stats,
          last_sys, error_log, last_sensors, construction, escaped, held, cleanups,
          release_calls,
          request, cpu_probe, other,
          websockets, ws, pcs, pc, shutdown>>

collector_vars == <<mon, history, polls, backend_calls, successes, query_failed,
                    last_stats, last_sys, error_log, last_sensors, construction, escaped,
                    lifecycle_vars, request, other>>

host_vars == <<cpu_probe>>

peer_vars == <<other>>

monitor_vars == <<collector_vars, host_vars>>

ws_vars == <<websockets, ws>>

pc_vars == <<pcs, pc, shutdown>>

server_vars == <<ws_vars, pc_vars>>

video_vars == <<main_done, class_every, track, svc, tasks, inflight, finished,
                last_good, last_update, recv_result, delivered>>

NoMonitor == [kind |-> "none", history_size |-> 0, available |-> FALSE,
              error_logged |-> FALSE, consecutive_errors |-> 0,
              has_device_name |-> FALSE, use_jtop |-> FALSE,
              jtop_instance |-> FALSE, has_sysfs_paths |-> FALSE]

EmptyHistory == [gpu_util |-> <<>>, vram_used |-> <<>>, cpu_util |-> <<>>, ram_used |-> <<>>]

NoFailure == [poll |-> 0, calls |-> 0]

NoStats == [platform |-> "none", gpu_percent |-> 0, vram_used_gb |-> 0,
            vram_total_gb |-> 0, vram_percent |-> 0, cpu_percent |-> 0,
            cpu_model |-> "Unknown CPU", ram_used_gb |-> 0, ram_total_gb |-> 0,
            ram_percent |-> 0, hostname |-> "Unknown"]

NoSys == [cpu_percent |-> 0, cpu_model |-> "Unknown CPU", ram_used_gb |-> 0,
          ram_total_gb |-> 0, ram_percent |-> 0, hostname |-> "Unknown"]

\* a counter file or sensor that cannot be read
Unreadable == -1

\* Python's None
None == -100

NoFrame == [track |-> 0, img |-> 0, pts |-> None, time_base |-> None]

NoSensors == [temp |-> Unreadable, power |-> Unreadable, nvd |-> Unreadable,
              gpc |-> Unreadable, gpc_max |-> Unreadable]

NoOther == [constructed |-> FALSE, mon |-> NoMonitor, history |-> EmptyHistory, polls |-> 0]

NoProbe == [called |-> FALSE, result |-> <<>>, raised |-> FALSE]

NoReleases == [n |-> 0, failed |-> FALSE, again |-> FALSE, at |-> -1]

NotHeld == [taken |-> FALSE, live |-> FALSE, mutated |-> FALSE, value |-> EmptyHistory]

NoRequest == [platform |-> "unset", marker |-> FALSE, probe |-> "fail"]

NoSocket == [phase |-> "none", exit |-> "none", alive |-> TRUE, failed_sends |-> 0]

NoPeer == [created |-> FALSE, state |-> "none", closed |-> FALSE, pending |-> FALSE]

NoShutdown == [phase |-> "no", coros |-> {}]

NoUpdate == [track |-> 0, text |-> InitialText, status |-> "none",
             running |-> FALSE, good |-> InitialText, calls |-> 0]

Init ==
    /\ main_done = FALSE
    /\ class_every = 0
    /\ track = [t \in Tracks |-> [created |-> FALSE, frame_count |-> 0,
                                  process_every_n_frames |-> 0]]
    /\ svc = [s \in ServiceIds |-> [current_response |-> InitialText,
                                    is_processing |-> FALSE]]
    /\ tasks = <<>>
    /\ inflight = {}
    /\ finished = {}
    /\ last_good = [s \in ServiceIds |-> InitialText]
    /\ last_update = NoUpdate
    /\ recv_result = "none"
    /\ delivered = NoFrame
    /\ mon = NoMonitor
    /\ history = EmptyHistory
    /\ polls = 0
    /\ backend_calls = 0
    /\ successes = <<>>
    /\ query_failed = NoFailure
    /\ last_stats = NoStats
    /\ last_sys = NoSys
    /\ error_log = <<>>
    /\ last_sensors = NoSensors
    /\ construction = "none"
    /\ escaped = FALSE
    /\ held = NotHeld
    /\ cleanups = 0
    /\ release_calls = NoReleases
    /\ request = NoRequest
    /\ cpu_probe = NoProbe
    /\ other = NoOther
    /\ websockets = {}
    /\ ws = [w \in 1..MaxSockets |-> NoSocket]
    /\ pcs = {}
    /\ pc = [p \in 1..MaxPeers |-> NoPeer]
    /\ shutdown = NoShutdown

(***************************************************************************)
(* server.py                                                               *)
(***************************************************************************)
\* main(): creates the global VLMService and assigns the class attribute
main(n) ==
    /\ ~main_done
    /\ main_done' = TRUE
    /\ class_every' = n
    /\ UNCHANGED <<monitor_vars, server_vars, recv_result, delivered, track, svc, tasks, inflight, finished, last_good, last_update>>

\* on_track building a service of its own for each track
vlm_service_of_mutant(t) == t

\* the service object on_track hands to the new VideoProcessorTrack
vlm_service_of(t) == GlobalService

\* VideoProcessorTrack.__init__: the instance attribute
init_process_every_n_frames == process_every_n_frames_default

\* offer.on_track for a video track
on_track(t) ==
    /\ main_done
    /\ ~track[t].created
    /\ track' = [track EXCEPT ![t] =
                    [created |-> TRUE, frame_count |-> 0,
                     process_every_n_frames |-> init_process_every_n_frames]]
    /\ UNCHANGED <<monitor_vars, server_vars, recv_result, delivered, main_done, class_every, svc, tasks, inflight, finished,
                   last_good, last_update>>

\* process_frame without the busy check
process_frame_skips_mutant(s) == FALSE

(***************************************************************************)
(* The inference service (VLMService)                                      *)
(***************************************************************************)
\* process_frame returns at once when a call is outstanding
process_frame_skips(s) == s.is_processing

\* process_frame entering the call
process_frame_begin(s) == [s EXCEPT !.is_processing = TRUE]

\* completion that stores the text and leaves the flag for later
process_frame_success_mutant(s, text) ==
    [current_response |-> text, is_processing |-> s.is_processing]

\* completion with a text
process_frame_success(s, text) ==
    [current_response |-> text, is_processing |-> FALSE]

\* completion that reports the failure as the text
process_frame_failure_mutant(s) ==
    [current_response |-> ErrorText, is_processing |-> FALSE]

\* completion with a failure
process_frame_failure(s) == [s EXCEPT !.is_processing = FALSE]

\* get_current_response()
get_current_response(s) == <<s.current_response, s.is_processing>>

ResultText(c) == c.track * 100 + c.frame

(***************************************************************************)
(* video_processor.py                                                      *)
(***************************************************************************)
TotalFrames == LET RECURSIVE Sum(_)
                   Sum(n) == IF n = 0 THEN 0 ELSE track[n].frame_count + Sum(n - 1)
               IN Sum(MaxTracks)

\* recv awaiting process_frame
fire_and_forget_mutant == FALSE

\* recv creates a task and does not await it
fire_and_forget == TRUE

\* recv is suspended on the inference it dispatched
recv_suspended(t) ==
    /\ ~fire_and_forget
    /\ \/ \E i \in 1..Len(tasks) : tasks[i].track = t
       \/ \E c \in inflight : c.track = t

\* dispatch condition off by one
should_dispatch_mutant(frame_count, every) == frame_count % every = 1

\* the dispatch condition of recv
should_dispatch(frame_count, every) == frame_count % every = 0

\* the 90 kHz clock of a video source and the ticks between two of its frames
VideoClockRate == 90000
VideoPtime == 3000

\* the k-th frame the source of track t delivers; the sources start at
\* different timestamps
source_frame(t, k) ==
    [img |-> t * 1000 + k,
     pts |-> (t - 1) * 1500 + k * VideoPtime, time_base |-> VideoClockRate]

\* frame.to_ndarray(format="bgr24"): the pixels alone
to_ndarray(frame) == frame.img

\* VideoFrame.from_ndarray(img, format="bgr24"): a new frame with no timing
from_ndarray(img) == [img |-> img, pts |-> None, time_base |-> None]

\* the new frame returned as it was built
copy_timing_mutant(new_frame, frame) == new_frame

\* new_frame.pts = frame.pts; new_frame.time_base = frame.time_base
copy_timing(new_frame, frame) ==
    [new_frame EXCEPT !.pts = frame.pts, !.time_base = frame.time_base]

\* the frame recv returns for the source frame it has read
output_frame(frame) == copy_timing(from_ndarray(to_ndarray(frame)), frame)

\* the status chosen for the callback, inverted
callback_status_mutant(is_processing) == IF is_processing THEN "Ready" ELSE "Processing..."

\* the status recv hands to the callback
callback_status(is_processing) == IF is_processing THEN "Processing..." ELSE "Ready"

\* recv invoking text_callback(response, status) with the pair it has just read;
\* running and good record what was true of the service at the read
text_callback(t, pair, s) ==
    [track |-> t, text |-> pair[1], status |-> callback_status(pair[2]),
     running |-> (\E c \in inflight : vlm_service_of(c.track) = s),
     good |-> last_good[s], calls |-> 1]

\* VideoProcessorTrack.recv, from the frame delivered by the source track
recv(t) ==
    /\ track[t].created
    /\ TotalFrames < MaxFrames
    /\ ~recv_suspended(t)
    /\ LET fc == track[t].frame_count + 1
           every == track[t].process_every_n_frames
           s == vlm_service_of(t)
           pair == get_current_response(svc[s])
       IN /\ track' = [track EXCEPT ![t].frame_count = fc]
          /\ tasks' = IF should_dispatch(fc, every)
                        THEN Append(tasks, [track |-> t, frame |-> fc])
                        ELSE tasks
          /\ last_update' = text_callback(t, pair, s)
    /\ recv_result' = "frame"
    /\ delivered' = [track |-> t] @@ output_frame(source_frame(t, track[t].frame_count + 1))
    /\ UNCHANGED <<monitor_vars, server_vars, main_done, class_every, svc, inflight, finished, last_good>>

\* the steps of recv that can raise, in the order recv takes them
RecvStages == {"source", "dispatch", "read", "callback"}

\* the except clause of recv: the exception is logged and raised again
recv_on_exception == "raised"

\* the frame counter advanced before the source frame is awaited
frame_counted_mutant(stage) == TRUE

\* whether recv has advanced frame_count when the step `stage` raises: the
\* increment follows the source read and the conversion of the frame
frame_counted(stage) == stage # "source"

\* VideoProcessorTrack.recv when the step `stage` raises
recv_fails(t, stage) ==
    /\ track[t].created
    /\ ~recv_suspended(t)
    /\ stage \in RecvStages
    /\ stage # "source" => TotalFrames < MaxFrames
    /\ LET fc == track[t].frame_count + 1
           every == track[t].process_every_n_frames
           s == vlm_service_of(t)
           pair == get_current_response(svc[s])
       IN /\ stage = "dispatch" => should_dispatch(fc, every)
          /\ track' = IF frame_counted(stage)
                        THEN [track EXCEPT ![t].frame_count = fc]
                        ELSE track
          /\ tasks' = IF stage \in {"read", "callback"} /\ should_dispatch(fc, every)
                        THEN Append(tasks, [track |-> t, frame |-> fc])
                        ELSE tasks
          /\ last_update' = IF stage = "callback"
                              THEN text_callback(t, pair, s)
                              ELSE last_update
    /\ recv_result' = recv_on_exception
    /\ UNCHANGED <<monitor_vars, server_vars, delivered, main_done, class_every, svc, inflight, finished, last_good>>

\* the event loop starts the oldest pending process_frame task: it is skipped
task_skip ==
    /\ tasks # <<>>
    /\ LET k == Head(tasks)
           s == vlm_service_of(k.track)
       IN /\ process_frame_skips(svc[s])
          /\ finished' = finished \cup {[track |-> k.track, frame |-> k.frame,
                                         outcome |-> "skipped"]}
    /\ tasks' = Tail(tasks)
    /\ UNCHANGED <<monitor_vars, server_vars, recv_result, delivered, main_done, class_every, track, svc, inflight, last_good, last_update>>

\* the event loop starts the oldest pending process_frame task: it calls the backend
task_start ==
    /\ tasks # <<>>
    /\ LET k == Head(tasks)
           s == vlm_service_of(k.track)
       IN /\ ~process_frame_skips(svc[s])
          /\ svc' = [svc EXCEPT ![s] = process_frame_begin(svc[s])]
          /\ inflight' = inflight \cup {[track |-> k.track, frame |-> k.frame,
                                         before |-> svc[s].current_response]}
    /\ tasks' = Tail(tasks)
    /\ UNCHANGED <<monitor_vars, server_vars, recv_result, delivered, main_done, class_every, track, finished, last_good, last_update>>

\* the backend answers
call_success(c) ==
    /\ c \in inflight
    /\ LET s == vlm_service_of(c.track)
       IN /\ svc' = [svc EXCEPT ![s] = process_frame_success(svc[s], ResultText(c))]
          /\ last_good' = [last_good EXCEPT ![s] = ResultText(c)]
    /\ inflight' = inflight \ {c}
    /\ finished' = finished \cup {[track |-> c.track, frame |-> c.frame, outcome |-> "ok"]}
    /\ UNCHANGED <<monitor_vars, server_vars, recv_result, delivered, main_done, class_every, track, tasks, last_update>>

\* the backend call fails
call_failure(c) ==
    /\ c \in inflight
    /\ LET s == vlm_service_of(c.track)
       IN svc' = [svc EXCEPT ![s] = process_frame_failure(svc[s])]
    /\ inflight' = inflight \ {c}
    /\ finished' = finished \cup {[track |-> c.track, frame |-> c.frame, outcome |-> "failed"]}
    /\ UNCHANGED <<monitor_vars, server_vars, recv_result, delivered, main_done, class_every, track, tasks, last_good, last_update>>


(***************************************************************************)
(* Properties of the frame path and the inference service                  *)
(***************************************************************************)
PendingOf(t) == {i \in 1..Len(tasks) : tasks[i].track = t}
InflightOf(t) == {c \in inflight : c.track = t}
FinishedOf(t) == {f \in finished : f.track = t}

\* number of process_frame tasks recv of track t has created
Dispatched(t) ==
    Cardinality(PendingOf(t)) + Cardinality(InflightOf(t)) + Cardinality(FinishedOf(t))

\* number of backend calls begun for track t
Started(t) ==
    Cardinality(InflightOf(t)) + Cardinality({f \in FinishedOf(t) : f.outcome # "skipped"})

C2_FirstDispatchAtK ==
    \A t \in Tracks : track[t].created =>
        LET K == track[t].process_every_n_frames
        IN /\ track[t].frame_count < K => Dispatched(t) = 0 /\ Started(t) = 0
           /\ track[t].frame_count = K => Dispatched(t) = 1 /\ Started(t) <= 1

C2_Witness ==
    \E t \in Tracks : \E c \in InflightOf(t) :
        /\ track[t].frame_count = track[t].process_every_n_frames
        /\ c.frame = track[t].frame_count
        /\ Dispatched(t) = 1

\* C3: after main() ran with --process-every N, every track dispatches on
\* exactly the frames whose count is a multiple of N
C3_ConfiguredIntervalTakesEffect ==
    main_done =>
        \A t \in Tracks : track[t].created =>
            Dispatched(t) = track[t].frame_count \div class_every

\* C4: recv is never held back by inference: whenever the source has a frame
\* for a track, recv of that track can take it and return
C4_FramePathNeverWaits ==
    \A t \in Tracks :
        (track[t].created /\ TotalFrames < MaxFrames) => ENABLED recv(t)

\* frames were returned after the dispatch while the call is still outstanding
C4_Witness ==
    \E c \in inflight : track[c.track].frame_count > c.frame + 1

\* C5: the step in which an inference call fails leaves the text as it was when
\* the call began, not an error string, clears is_processing, and touches
\* nothing of the frame path
C5_FailureKeepsText ==
    [][\A c \in inflight :
          ([track |-> c.track, frame |-> c.frame, outcome |-> "failed"]
               \in finished' \ finished)
          => LET s == vlm_service_of(c.track)
             IN /\ svc'[s].current_response = c.before
                /\ svc'[s].current_response # ErrorText
                /\ ~svc'[s].is_processing
                /\ track' = track
                /\ last_update' = last_update]_vars

\* a call failed after an earlier one had produced a text, and that text stands
C5_Witness ==
    /\ \E f \in finished : f.outcome = "failed"
    /\ \E f \in finished : f.outcome = "ok"
    /\ inflight = {} /\ tasks = <<>>
    /\ svc[GlobalService].current_response = last_good[GlobalService]
    /\ svc[GlobalService].current_response # InitialText
    /\ ~svc[GlobalService].is_processing

\* C6: the pair recv reads is a complete one: the text is that of the last
\* completed successful inference, and the flag is set exactly when a call is
\* outstanding
C6_NoPartialRead ==
    last_update.status # "none" =>
        /\ last_update.text = last_update.good
        /\ (last_update.status = "Processing...") = last_update.running

\* a read made while a call was in flight, after an earlier result
C6_Witness ==
    /\ last_update.status = "Processing..."
    /\ last_update.text # InitialText
    /\ inflight # {}

\* C7: with several tracks on the one service, at most one inference call is
\* outstanding, and it holds the service's busy flag
C7_SharedServiceOneCall ==
    /\ Cardinality(inflight) <= 1
    /\ \A c \in inflight : svc[vlm_service_of(c.track)].is_processing

\* two tracks are active and the task of one was skipped while the call of the
\* other is outstanding
C7_Witness ==
    \E c \in inflight : \E f \in finished :
        f.outcome = "skipped" /\ f.track # c.track

(***************************************************************************)
(* gpu_monitor.py                                                          *)
(***************************************************************************)
\* accelerator utilisation readings a backend may supply
GpuVals == {0, 40}
\* memory reading of a backend that reports memory: used, total, percent
VramUsed == 2
VramTotal == 8
VramPercent == 25
\* memory.total of the host
RamTotal == 20

(***************************************************************************)
(* gpu_monitor.py: get_cpu_model                                           *)
(***************************************************************************)
\* strings are sequences of characters; the texts a host can offer
Texts == {<<>>, <<" ">>, <<"x">>, <<" ", "x", " ">>}

\* the literal "Unknown CPU"
UnknownCPU == <<"U", "n", "k", "n", "o", "w", "n", " ", "C", "P", "U">>

RECURSIVE lstrip(_)
lstrip(t) == IF t # <<>> /\ Head(t) = " " THEN lstrip(Tail(t)) ELSE t

RECURSIVE rstrip(_)
rstrip(t) == IF t # <<>> /\ t[Len(t)] = " " THEN rstrip(SubSeq(t, 1, Len(t) - 1)) ELSE t

\* str.strip
strip(t) == rstrip(lstrip(t))

\* a line of /proc/cpuinfo: whether it starts with "model name", whether it
\* has a colon, and the text after the colon
CpuinfoLines == [model_name : BOOLEAN, colon : BOOLEAN, value : Texts]

RECURSIVE SeqsUpTo(_, _)
SeqsUpTo(S, n) ==
    IF n = 0 THEN {<<>>}
    ELSE LET shorter == SeqsUpTo(S, n - 1)
         IN shorter \cup {Append(q, x) : q \in shorter, x \in S}

\* the Linux branch: the first line starting with "model name" decides;
\* "raise" when split(":")[1] has nothing to index, "none" without such a line
RECURSIVE scan_cpuinfo(_)
scan_cpuinfo(lines) ==
    IF lines = <<>> THEN [kind |-> "none", text |-> <<>>]
    ELSE IF Head(lines).model_name
      THEN IF Head(lines).colon
             THEN [kind |-> "return", text |-> strip(Head(lines).value)]
             ELSE [kind |-> "raise", text |-> <<>>]
    ELSE scan_cpuinfo(Tail(lines))

\* str.strip of the whole output followed by split("\n"): blank lines at both
\* ends go away, an empty output gives one empty line
RECURSIVE drop_leading_blank(_)
drop_leading_blank(ls) ==
    IF ls # <<>> /\ strip(Head(ls)) = <<>> THEN drop_leading_blank(Tail(ls)) ELSE ls

RECURSIVE drop_trailing_blank(_)
drop_trailing_blank(ls) ==
    IF ls # <<>> /\ strip(ls[Len(ls)]) = <<>>
      THEN drop_trailing_blank(SubSeq(ls, 1, Len(ls) - 1)) ELSE ls

strip_and_split(ls) ==
    LET kept == drop_trailing_blank(drop_leading_blank(ls))
    IN IF kept = <<>> THEN << <<>> >> ELSE kept

\* the fallback after the platform branch: platform.processor()
processor_fallback(proc) == IF strip(proc) # <<>> THEN strip(proc) ELSE UnknownCPU

\* get_cpu_model(); host.system, host.readable (the open or the command did
\* not raise), host.returncode, host.cpuinfo (lines of the file), host.stdout
\* (sysctl's output), host.output (wmic's output lines), host.proc
get_cpu_model(host) ==
    IF host.system = "Linux"
      THEN LET r == IF host.readable THEN scan_cpuinfo(host.cpuinfo)
                    ELSE [kind |-> "raise", text |-> <<>>]
           IN IF r.kind = "return" THEN r.text ELSE processor_fallback(host.proc)
    ELSE IF host.system = "Darwin"
      THEN IF host.readable /\ host.returncode = 0 /\ strip(host.stdout) # <<>>
             THEN strip(host.stdout)
             ELSE processor_fallback(host.proc)
    ELSE IF host.system = "Windows"
      THEN LET lines == strip_and_split(host.output)
           IN IF host.readable /\ host.returncode = 0 /\ Len(lines) > 1
                THEN strip(lines[2])
                ELSE processor_fallback(host.proc)
    ELSE processor_fallback(host.proc)

\* the hosts get_cpu_model is run on
LinuxHosts ==
    [system : {"Linux"}, readable : {TRUE}, returncode : {0},
     cpuinfo : SeqsUpTo(CpuinfoLines, MaxLines), stdout : {<<>>}, output : {<<>>},
     proc : Texts]
    \cup [system : {"Linux"}, readable : {FALSE}, returncode : {0},
          cpuinfo : {<<>>}, stdout : {<<>>}, output : {<<>>}, proc : Texts]

DarwinHosts ==
    [system : {"Darwin"}, readable : BOOLEAN, returncode : {0, 1},
     cpuinfo : {<<>>}, stdout : Texts, output : {<<>>}, proc : Texts]

WindowsHosts ==
    [system : {"Windows"}, readable : BOOLEAN, returncode : {0, 1},
     cpuinfo : {<<>>}, stdout : {<<>>}, output : SeqsUpTo(Texts, MaxLines + 1),
     proc : Texts]

OtherHosts ==
    [system : {"Other"}, readable : {TRUE}, returncode : {0},
     cpuinfo : {<<>>}, stdout : {<<>>}, output : {<<>>}, proc : Texts]

Hosts == LinuxHosts \cup DarwinHosts \cup WindowsHosts \cup OtherHosts

\* one call of get_cpu_model() on a host
get_cpu_model_call(host) ==
    /\ ~cpu_probe.called
    /\ cpu_probe' = [called |-> TRUE, host |-> host, result |-> get_cpu_model(host),
                     raised |-> FALSE]
    /\ UNCHANGED <<video_vars, server_vars, collector_vars>>

NextCpuModel == \E host \in Hosts : get_cpu_model_call(host)

SpecCpuModel == Init /\ [][NextCpuModel]_vars

\* GPUMonitor.get_cpu_ram_stats: psutil readings, or the zeroed record of the except branch
get_cpu_ram_stats(ok, cpu, ram) ==
    IF ok THEN [cpu_percent |-> cpu, cpu_model |-> "cpu", ram_used_gb |-> ram,
                ram_total_gb |-> RamTotal, ram_percent |-> (ram * 100) \div RamTotal,
                hostname |-> "host"]
          ELSE [cpu_percent |-> 0, cpu_model |-> "Unknown CPU", ram_used_gb |-> 0,
                ram_total_gb |-> 0, ram_percent |-> 0, hostname |-> "Unknown"]

SysStats == {get_cpu_ram_stats(TRUE, 10, 4), get_cpu_ram_stats(TRUE, 20, 5),
             get_cpu_ram_stats(FALSE, 10, 4)}

\* a full deque that refuses the new sample
deque_append_mutant(q, x, n) == IF Len(q) >= n THEN q ELSE Append(q, x)

\* deque.append on a deque(maxlen=n)
deque_append(q, x, n) ==
    LET r == Append(q, x)
    IN IF Len(r) > n THEN SubSeq(r, Len(r) - n + 1, Len(r)) ELSE r

\* GPUMonitor.update_history
update_history(h, stats, n) ==
    [gpu_util  |-> deque_append(h.gpu_util, stats.gpu_percent, n),
     vram_used |-> deque_append(h.vram_used, stats.vram_used_gb, n),
     cpu_util  |-> deque_append(h.cpu_util, stats.cpu_percent, n),
     ram_used  |-> deque_append(h.ram_used, stats.ram_used_gb, n)]

\* GPUMonitor.get_history
get_history == history

\* the dict literal of a snapshot: accelerator fields, then **system_stats
Snapshot(label, gpu, used, total, pct, sys) ==
    [platform |-> label, gpu_percent |-> gpu, vram_used_gb |-> used,
     vram_total_gb |-> total, vram_percent |-> pct] @@ sys

\* a jtop power dict in which no rail carries a 'power' entry
NoRails == -3

\* the gpu_name entry of a snapshot
WithName(st, name) == st @@ [gpu_name |-> name]

\* the temp_c and power_w entries of a snapshot
WithSensors(st, temp, power) == st @@ [temp_c |-> temp, power_w |-> power]

\* NVMLMonitor.get_stats: nvmlDeviceGetTemperature, None when it raises
NVML_temp_c(temp) == IF temp = Unreadable THEN None ELSE temp

\* NVMLMonitor.get_stats: nvmlDeviceGetPowerUsage in mW, None when it raises
NVML_power_w(power_mw) == IF power_mw = Unreadable THEN None ELSE power_mw \div 1000

\* JetsonThorMonitor.get_stats: the GPU entry of jtop's temperature, None without one
Jtop_temp_c(temp) == IF temp = Unreadable THEN None ELSE temp

\* JetsonThorMonitor.get_stats: the sum over the rails of jtop's power dict, in W;
\* None only when jtop has no power dict
Jtop_power_w(power_mw) ==
    IF power_mw = Unreadable THEN None
    ELSE IF power_mw = NoRails THEN 0 \div 1000
    ELSE power_mw \div 1000

\* NVMLMonitor.__init__
NVMLMonitor_init(hs, ok, named) ==
    [kind |-> "nvml", history_size |-> hs, available |-> ok,
     error_logged |-> ~ok, consecutive_errors |-> 0,
     has_device_name |-> (ok \/ named), use_jtop |-> FALSE,
     jtop_instance |-> FALSE, has_sysfs_paths |-> FALSE]

\* fallback snapshot built without the CPU/RAM fields
NVML_get_fallback_stats_mutant(m, sys) ==
    [platform |-> "NVIDIA (NVML unavailable)", gpu_percent |-> 0, vram_used_gb |-> 0,
     vram_total_gb |-> 0, vram_percent |-> 0]

\* NVMLMonitor._get_fallback_stats
NVML_get_fallback_stats(m, sys) ==
    WithSensors(WithName(
        Snapshot(IF m.has_device_name THEN "NVIDIA <name> (monitoring unavailable)"
                                      ELSE "NVIDIA (NVML unavailable)",
                 0, 0, 0, 0, sys),
        IF m.has_device_name THEN "<name>" ELSE "N/A"), None, None)

\* except branch that forgets to clear available
NVML_on_error_mutant(m) ==
    [m EXCEPT !.consecutive_errors = @ + 1, !.error_logged = TRUE]

\* NVMLMonitor.get_stats, the except branch
NVML_on_error(m) ==
    IF ~m.error_logged
      THEN [m EXCEPT !.consecutive_errors = @ + 1, !.error_logged = TRUE,
                     !.available = FALSE]
      ELSE [m EXCEPT !.consecutive_errors = @ + 1]

\* "once every 60 calls" of the periodic warning
relog_every == 60

\* whether the except branch writes the "still unavailable" warning: an error
\* was logged before and the counter, just incremented, is a multiple of 60
NVML_relogs(m) ==
    IF m.error_logged /\ (m.consecutive_errors + 1) % relog_every = 0 THEN 1 ELSE 0

\* get_stats querying the backend whatever available says
NVML_returns_early_mutant(m) == FALSE

\* NVMLMonitor.get_stats, the test made before the query
NVML_returns_early(m) == ~m.available

\* NVMLMonitor.get_stats; env: whether the NVML query succeeds, its readings, CPU/RAM
NVML_get_stats(m, h, env) ==
    IF NVML_returns_early(m)
      THEN [mon |-> m, history |-> h, stats |-> NVML_get_fallback_stats(m, env.sys),
            called |-> FALSE, ok |-> FALSE, failed |-> FALSE, errors |-> 0,
            supplied |-> NoSensors]
    ELSE IF env.query_ok
      THEN LET stats == WithSensors(WithName(
                            Snapshot("NVIDIA (NVML)", env.gpu, VramUsed, VramTotal,
                                     VramPercent, env.sys), "<name>"),
                            NVML_temp_c(env.temp), NVML_power_w(env.power))
           IN [mon |-> m, history |-> update_history(h, stats, m.history_size),
               stats |-> stats, called |-> TRUE, ok |-> TRUE, failed |-> FALSE,
               errors |-> 0, supplied |-> [NoSensors EXCEPT !.temp = env.temp, !.power = env.power]]
      ELSE LET m2 == NVML_on_error(m)
           IN [mon |-> m2, history |-> h,
               stats |-> NVML_get_fallback_stats(m2, env.sys),
               called |-> TRUE, ok |-> FALSE, failed |-> TRUE,
               errors |-> IF m.error_logged THEN 0 ELSE 1,
               relogs |-> NVML_relogs(m), supplied |-> NoSensors]

\* outcomes of starting jtop, and of the open/read of the load_target file
JtopOutcomes == {"ok", "import_error", "start_failed"}
SysfsOutcomes == {"ok", "denied", "os_error"}

\* JetsonThorMonitor.__init__: the read of load_target raises something other
\* than FileNotFoundError or PermissionError, which nothing catches
JetsonThorMonitor_init_raises(jtop, sysfs) == jtop # "ok" /\ sysfs = "os_error"

\* JetsonThorMonitor.__init__; jtop: "ok", "import_error" or "start_failed";
\* sysfs: "ok", "denied" (FileNotFoundError, PermissionError) or "os_error"
JetsonThorMonitor_init(hs, jtop, sysfs) ==
    [kind |-> "thor", history_size |-> hs,
     available |-> (jtop = "ok" \/ sysfs = "ok"),
     error_logged |-> FALSE, consecutive_errors |-> 0,
     has_device_name |-> TRUE, use_jtop |-> (jtop = "ok"),
     jtop_instance |-> (jtop # "import_error"),
     has_sysfs_paths |-> (jtop # "ok")]

\* JetsonOrinMonitor.__init__
JetsonOrinMonitor_init(hs) ==
    [kind |-> "orin", history_size |-> hs, available |-> FALSE,
     error_logged |-> FALSE, consecutive_errors |-> 0,
     has_device_name |-> FALSE, use_jtop |-> FALSE,
     jtop_instance |-> FALSE, has_sysfs_paths |-> FALSE]

\* JetsonOrinMonitor.get_stats
Orin_get_stats(m, h, env) ==
    [mon |-> m, history |-> h,
     stats |-> WithName(Snapshot("Jetson Orin (tegrastats)", 0, 0, 0, 0, env.sys),
                        "Jetson Orin"),
     called |-> FALSE, ok |-> FALSE, failed |-> FALSE, errors |-> 0,
     supplied |-> NoSensors]

\* final except branch that leaves the collector available
Thor_on_error_mutant(m) == m

\* JetsonThorMonitor.get_stats, the final except branch
Thor_on_error(m) == [m EXCEPT !.available = FALSE]

Max(a, b) == IF a >= b THEN a ELSE b

\* the division made whatever max is (a max of 0 counted as 1)
load_percent_mutant(load, max) == (load * 100) \div Max(max, 1)

\* load / max * 100 of a pair of nvhost_podgov counters, 0 when max is 0
load_percent(load, max) == IF max > 0 THEN (load * 100) \div max ELSE 0

\* JetsonThorMonitor.get_stats, from the nvhost_podgov fallback on
Thor_sysfs_stats(m, h, env, called, errors) ==
    IF m.has_sysfs_paths /\ env.gpc # Unreadable /\ env.gpc_max # Unreadable
      THEN LET gpc == load_percent(env.gpc, env.gpc_max)
               gpu == IF env.nvd = Unreadable \/ env.nvd_max = Unreadable THEN gpc
                      ELSE Max(gpc, load_percent(env.nvd, env.nvd_max))
               stats == WithSensors(WithName(
                            Snapshot("Jetson Thor (nvhost_podgov)", gpu, 0, 0, 0, env.sys),
                            "NVIDIA Thor"), None, None)
           IN [mon |-> m, history |-> update_history(h, stats, m.history_size),
               stats |-> stats, called |-> TRUE, ok |-> TRUE, failed |-> FALSE,
               errors |-> errors,
               supplied |-> [NoSensors EXCEPT !.gpc = env.gpc, !.gpc_max = env.gpc_max,
                               !.nvd = IF env.nvd = Unreadable \/ env.nvd_max = Unreadable
                                         THEN Unreadable
                                         ELSE load_percent(env.nvd, env.nvd_max)]]
      ELSE [mon |-> Thor_on_error(m), history |-> h,
            stats |-> WithName(Snapshot("Jetson Thor (error)", 0, 0, 0, 0, env.sys),
                               "NVIDIA Thor"),
            called |-> (called \/ m.has_sysfs_paths), ok |-> FALSE, failed |-> TRUE,
            errors |-> errors + 1,
            supplied |-> IF m.has_sysfs_paths
                           THEN [NoSensors EXCEPT !.gpc = env.gpc,
                                                  !.gpc_max = IF env.gpc = Unreadable
                                                                THEN Unreadable
                                                                ELSE env.gpc_max]
                           ELSE NoSensors]

\* JetsonThorMonitor.get_stats
Thor_get_stats(m, h, env) ==
    IF ~m.available
      THEN [mon |-> m, history |-> h,
            stats |-> WithName(Snapshot("Jetson Thor (monitoring unavailable)",
                                        0, 0, 0, 0, env.sys), "NVIDIA Thor"),
            called |-> FALSE, ok |-> FALSE, failed |-> FALSE, errors |-> 0,
            supplied |-> NoSensors]
    ELSE IF m.use_jtop /\ m.jtop_instance
      THEN IF env.query_ok
             THEN LET stats == WithSensors(WithName(
                                   Snapshot("Jetson Thor (jtop)", env.gpu, VramUsed,
                                            VramTotal, VramPercent, env.sys),
                                   "NVIDIA Thor"),
                                   Jtop_temp_c(env.temp), Jtop_power_w(env.power))
                  IN [mon |-> m, history |-> update_history(h, stats, m.history_size),
                      stats |-> stats, called |-> TRUE, ok |-> TRUE, failed |-> FALSE,
                      errors |-> 0,
                      supplied |-> [NoSensors EXCEPT !.temp = env.temp, !.power = env.power]]
             ELSE Thor_sysfs_stats([m EXCEPT !.use_jtop = FALSE], h, env, TRUE, 1)
      ELSE Thor_sysfs_stats(m, h, env, FALSE, 0)

Sample(stats) == [gpu |-> stats.gpu_percent, vram |-> stats.vram_used_gb,
                  cpu |-> stats.cpu_percent, ram |-> stats.ram_used_gb]

HistorySizes == 0..MaxHistorySize

\* the object a constructor call leaves, and how the call ended
Constructed(m, raises) ==
    /\ mon' = IF raises THEN [NoMonitor EXCEPT !.kind = "raised"] ELSE m
    /\ construction' = IF raises THEN "raised"
                        ELSE IF m.kind # "orin" /\ ~m.available THEN "init_failed"
                        ELSE "ok"
    /\ UNCHANGED <<video_vars, server_vars, history, polls, backend_calls, successes,
                   query_failed, last_stats, last_sys, poll_record_vars, host_vars, peer_vars, escaped,
                   lifecycle_vars>>

\* NVMLMonitor(history_size=hs)
construct_nvml(hs, ok, named) ==
    /\ construction = "none"
    /\ Constructed(NVMLMonitor_init(hs, ok, named), FALSE)
    /\ UNCHANGED request

\* JetsonThorMonitor(history_size=hs)
construct_thor(hs, jtop, sysfs) ==
    /\ construction = "none"
    /\ Constructed(JetsonThorMonitor_init(hs, jtop, sysfs),
                   JetsonThorMonitor_init_raises(jtop, sysfs))
    /\ UNCHANGED request

\* JetsonOrinMonitor(history_size=hs)
construct_orin(hs) ==
    /\ construction = "none"
    /\ Constructed(JetsonOrinMonitor_init(hs), FALSE)
    /\ UNCHANGED request

\* get_history handing out the deques themselves
get_history_returns_mutant(h) ==
    [taken |-> TRUE, live |-> TRUE, mutated |-> FALSE, value |-> h]

\* GPUMonitor.get_history: four new lists built from the deques
get_history_returns(h) ==
    [taken |-> TRUE, live |-> FALSE, mutated |-> FALSE, value |-> h]

\* what the caller sees in the object it holds once the buffers are h
SeenThroughView(v, h) == IF v.live THEN [v EXCEPT !.value = h] ELSE v

\* a value no reading takes, appended by a caller to the lists it was given
Marker == -7

\* the caller calls get_history()
get_history_call ==
    /\ construction \in {"ok", "init_failed"}
    /\ ~held.taken \/ held.mutated
    /\ held' = get_history_returns(history)
    /\ held' # held
    /\ escaped' = FALSE
    /\ UNCHANGED <<video_vars, server_vars, mon, history, polls, backend_calls, successes,
                   query_failed, last_stats, last_sys, poll_record_vars, host_vars, peer_vars, construction, cleanups,
                   release_calls, request>>

\* the caller appends to each list it was given
caller_mutates ==
    /\ held.taken /\ ~held.mutated
    /\ held' = [held EXCEPT !.mutated = TRUE,
                            !.value = [f \in DOMAIN held.value |->
                                          Append(held.value[f], Marker)]]
    /\ history' = IF held.live THEN held'.value ELSE history
    /\ UNCHANGED <<video_vars, server_vars, mon, polls, backend_calls, successes, query_failed,
                   last_stats, last_sys, poll_record_vars, host_vars, peer_vars, construction, escaped, cleanups,
                   release_calls, request>>

\* NVMLMonitor.cleanup without its try/except
NVML_cleanup_mutant(m, release_ok) ==
    [released |-> m.available, raised |-> m.available /\ ~release_ok]

\* NVMLMonitor.cleanup: nvmlShutdown() if available, its exception logged
NVML_cleanup(m, release_ok) ==
    [released |-> m.available, raised |-> FALSE]

\* JetsonThorMonitor.cleanup: jtop close() if jtop is in use, its exception logged
Thor_cleanup(m, release_ok) ==
    [released |-> m.use_jtop /\ m.jtop_instance, raised |-> FALSE]

\* JetsonOrinMonitor.cleanup: pass
Orin_cleanup(m, release_ok) ==
    [released |-> FALSE, raised |-> FALSE]

\* one cleanup() call on the collector; release_ok: the release call succeeds
cleanup(release_ok) ==
    /\ construction \in {"ok", "init_failed"}
    /\ cleanups < MaxCleanups
    /\ LET r == CASE mon.kind = "nvml" -> NVML_cleanup(mon, release_ok)
                  [] mon.kind = "thor" -> Thor_cleanup(mon, release_ok)
                  [] OTHER -> Orin_cleanup(mon, release_ok)
       IN /\ cleanups' = cleanups + 1
          /\ release_calls' = IF r.released
                                THEN [n |-> release_calls.n + 1,
                                      failed |-> (release_calls.failed \/ ~release_ok),
                                      again |-> (release_calls.again \/ release_calls.at = polls),
                                      at |-> polls]
                                ELSE release_calls
          /\ escaped' = r.raised
    /\ UNCHANGED <<video_vars, server_vars, mon, history, polls, backend_calls, successes,
                   query_failed, last_stats, last_sys, poll_record_vars, host_vars, peer_vars, construction, held,
                   request>>

\* the default history_size of the three constructors
history_size_default == 60

\* the platform argument: None, the recognised names, and names it does not know
Platforms == {"None", "nvidia", "jetson_thor", "jetson_orin", "apple", "other"}

\* what the NVML probe of create_monitor finds: no NVML, a GPU, a GPU named Thor
ProbeOutcomes == {"fail", "ok", "thor"}

\* create_monitor: the class whose constructor result is returned, "raised" when
\* an exception leaves the function. marker: the Thor sysfs path exists;
\* thor_raises: JetsonThorMonitor() raises on this host
create_monitor(platform, marker, probe, thor_raises) ==
    IF platform = "jetson_thor" THEN (IF thor_raises THEN "raised" ELSE "thor")
    ELSE IF platform = "jetson_orin" THEN "orin"
    ELSE IF platform = "None" /\ marker /\ ~thor_raises THEN "thor"
    ELSE IF platform \in {"nvidia", "None"} /\ probe = "thor" /\ ~thor_raises THEN "thor"
    ELSE "nvml"

\* one call of create_monitor(platform) on a host described by the other arguments
create_monitor_call(platform, marker, probe, jtop, sysfs, ok, named) ==
    /\ construction = "none"
    /\ request' = [platform |-> platform, marker |-> marker, probe |-> probe]
    /\ LET k == create_monitor(platform, marker, probe,
                               JetsonThorMonitor_init_raises(jtop, sysfs))
       IN Constructed(CASE k = "thor" -> JetsonThorMonitor_init(history_size_default, jtop, sysfs)
                        [] k = "orin" -> JetsonOrinMonitor_init(history_size_default)
                        [] k = "nvml" -> NVMLMonitor_init(history_size_default, ok, named)
                        [] OTHER -> NoMonitor,
                      k = "raised")

\* deques held by the class and so by every instance
buffers_of_mutant(inst) == "class"

\* the object holding the deques that inst's attributes name: GPUMonitor.__init__
\* assigns four new deques to self
buffers_of(inst) == inst

\* the two collector objects use the same deques
SharedBuffers == buffers_of("first") = buffers_of("second")

\* "still unavailable" warnings written by the call; error_log stamps them
\* with the negated poll number
Relogs(r) == IF "relogs" \in DOMAIN r THEN r.relogs ELSE 0

\* what one get_stats() call leaves behind
Polled(r) ==
    /\ mon' = r.mon
    /\ history' = r.history
    /\ other' = IF SharedBuffers THEN [other EXCEPT !.history = r.history] ELSE other
    /\ last_stats' = r.stats
    /\ polls' = polls + 1
    /\ backend_calls' = IF r.called THEN backend_calls + 1 ELSE backend_calls
    /\ successes' = IF r.ok THEN Append(successes, Sample(r.stats)) ELSE successes
    /\ query_failed' = IF r.failed /\ query_failed.poll = 0
                         THEN [poll |-> polls + 1, calls |-> backend_calls']
                         ELSE query_failed
    /\ last_sensors' = r.supplied
    /\ error_log' = error_log \o [i \in 1..r.errors |-> polls + 1]
                               \o [i \in 1..Relogs(r) |-> 0 - (polls + 1)]
    /\ escaped' = FALSE
    /\ UNCHANGED <<video_vars, server_vars, host_vars, construction, cleanups, release_calls, request>>

\* one poll of an NVMLMonitor
nvml_get_stats(env) ==
    /\ mon.kind = "nvml"
    /\ polls < MaxPolls
    /\ Polled(NVML_get_stats(mon, history, env))
    /\ last_sys' = env.sys
    /\ held' = SeenThroughView(held, history')

\* one poll of a JetsonThorMonitor
thor_get_stats(env) ==
    /\ mon.kind = "thor"
    /\ polls < MaxPolls
    /\ Polled(Thor_get_stats(mon, history, env))
    /\ last_sys' = env.sys
    /\ held' = SeenThroughView(held, history')

\* one poll of a JetsonOrinMonitor
orin_get_stats(env) ==
    /\ mon.kind = "orin"
    /\ polls < MaxPolls
    /\ Polled(Orin_get_stats(mon, history, env))
    /\ last_sys' = env.sys
    /\ held' = SeenThroughView(held, history')

\* sensor and counter readings of a host where they all work
NominalTemp == 45
NominalPower == 45000
NominalLoadMax == 100

\* NVMLMonitor(history_size=hs) for the second collector
construct_other(hs, ok, named) ==
    /\ ~other.constructed
    /\ other' = [constructed |-> TRUE, mon |-> NVMLMonitor_init(hs, ok, named),
                 history |-> IF SharedBuffers THEN history ELSE EmptyHistory, polls |-> 0]
    /\ UNCHANGED <<video_vars, server_vars, host_vars, mon, history, polls, backend_calls, successes,
                   query_failed, last_stats, last_sys, poll_record_vars, construction,
                   escaped, lifecycle_vars, request>>

\* one poll of the second collector
other_get_stats(env) ==
    /\ other.constructed
    /\ other.polls < MaxPolls
    /\ LET r == NVML_get_stats(other.mon, other.history, env)
       IN /\ other' = [other EXCEPT !.mon = r.mon, !.history = r.history,
                                    !.polls = @ + 1]
          /\ history' = IF SharedBuffers THEN r.history ELSE history
    /\ UNCHANGED <<video_vars, server_vars, host_vars, mon, polls, backend_calls, successes,
                   query_failed, last_stats, last_sys, poll_record_vars, construction,
                   escaped, lifecycle_vars, request>>

NVMLEnv == [query_ok : BOOLEAN, gpu : GpuVals, sys : SysStats,
            temp : {NominalTemp}, power : {NominalPower}]
ThorEnv == [query_ok : BOOLEAN, gpu : GpuVals, gpc : GpuVals \cup {Unreadable},
            nvd : GpuVals \cup {Unreadable}, sys : SysStats,
            temp : {NominalTemp}, power : {NominalPower},
            gpc_max : {NominalLoadMax}, nvd_max : {NominalLoadMax}]

OrinEnv == [sys : SysStats]

NextMonitor ==
    \/ \E hs \in HistorySizes, ok \in BOOLEAN, named \in BOOLEAN :
          construct_nvml(hs, ok, named)
    \/ \E hs \in HistorySizes, jtop \in JtopOutcomes, sysfs \in SysfsOutcomes :
          construct_thor(hs, jtop, sysfs)
    \/ \E hs \in HistorySizes : construct_orin(hs)
    \/ \E env \in NVMLEnv : nvml_get_stats(env)
    \/ \E env \in ThorEnv : thor_get_stats(env)
    \/ \E env \in OrinEnv : orin_get_stats(env)

SpecMonitor == Init /\ [][NextMonitor]_vars

\* the collector with a caller that reads and keeps its history
NextHistory ==
    \/ \E hs \in HistorySizes, ok \in BOOLEAN, named \in BOOLEAN :
          construct_nvml(hs, ok, named)
    \/ \E env \in NVMLEnv : nvml_get_stats(env)
    \/ get_history_call
    \/ caller_mutates

SpecHistory == Init /\ [][NextHistory]_vars

\* the collector from construction to cleanup
SteadyLoad(env) ==
    /\ env.sys \in {get_cpu_ram_stats(TRUE, 10, 4), get_cpu_ram_stats(FALSE, 10, 4)}
    /\ \A f \in DOMAIN env \cap {"gpu", "gpc", "nvd"} : env[f] \in {40, Unreadable}

NextLifecycle ==
    \/ \E hs \in HistorySizes, ok \in BOOLEAN, named \in BOOLEAN :
          construct_nvml(hs, ok, named)
    \/ \E hs \in HistorySizes, jtop \in JtopOutcomes, sysfs \in SysfsOutcomes :
          construct_thor(hs, jtop, sysfs)
    \/ \E hs \in HistorySizes : construct_orin(hs)
    \/ \E env \in NVMLEnv : SteadyLoad(env) /\ nvml_get_stats(env)
    \/ \E env \in ThorEnv : SteadyLoad(env) /\ thor_get_stats(env)
    \/ \E env \in OrinEnv : SteadyLoad(env) /\ orin_get_stats(env)
    \/ get_history_call
    \/ \E release_ok \in BOOLEAN : cleanup(release_ok)

SpecLifecycle == Init /\ [][NextLifecycle]_vars

\* a collector obtained from create_monitor and polled
NextFactory ==
    \/ \E platform \in Platforms, marker \in BOOLEAN, probe \in ProbeOutcomes,
          jtop \in JtopOutcomes, sysfs \in SysfsOutcomes, ok \in BOOLEAN, named \in BOOLEAN :
          create_monitor_call(platform, marker, probe, jtop, sysfs, ok, named)
    \/ \E env \in NVMLEnv : SteadyLoad(env) /\ nvml_get_stats(env)
    \/ \E env \in ThorEnv : SteadyLoad(env) /\ thor_get_stats(env)
    \/ \E env \in OrinEnv : SteadyLoad(env) /\ orin_get_stats(env)

SpecFactory == Init /\ [][NextFactory]_vars

\* a host whose readings do not change
QuietLoad(env) == env.sys = get_cpu_ram_stats(TRUE, 10, 4) /\ env.gpu = 40

\* two collectors in one process
NextInstances ==
    \/ \E hs \in HistorySizes, ok \in BOOLEAN, named \in BOOLEAN :
          construct_nvml(hs, ok, named)
    \/ \E hs \in HistorySizes, ok \in BOOLEAN, named \in BOOLEAN :
          construct_other(hs, ok, named)
    \/ \E env \in NVMLEnv : QuietLoad(env) /\ nvml_get_stats(env)
    \/ \E env \in NVMLEnv : QuietLoad(env) /\ other_get_stats(env)
    \/ get_history_call
    \/ \E release_ok \in BOOLEAN : cleanup(release_ok)

SpecInstances == Init /\ [][NextInstances]_vars

\* readings of hosts whose sensors and counter files may be missing or zero
SensorReadings == {Unreadable, 0, NominalTemp}
PowerReadings == {Unreadable, 0, NominalPower}
LoadMaxReadings == {Unreadable, 0, NominalLoadMax}
OneSys == {get_cpu_ram_stats(TRUE, 10, 4)}

NVMLSensorEnv == [query_ok : BOOLEAN, gpu : {40}, sys : OneSys,
                  temp : SensorReadings, power : PowerReadings]
ThorSensorEnv == [query_ok : BOOLEAN, gpu : {40}, gpc : GpuVals \cup {Unreadable},
                  nvd : GpuVals \cup {Unreadable}, sys : OneSys,
                  temp : SensorReadings, power : PowerReadings \cup {NoRails},
                  gpc_max : LoadMaxReadings, nvd_max : LoadMaxReadings]

\* collectors polled on such hosts
NextSensors ==
    \/ \E hs \in HistorySizes, ok \in BOOLEAN, named \in BOOLEAN :
          construct_nvml(hs, ok, named)
    \/ \E hs \in HistorySizes, jtop \in JtopOutcomes, sysfs \in SysfsOutcomes :
          construct_thor(hs, jtop, sysfs)
    \/ \E hs \in HistorySizes : construct_orin(hs)
    \/ \E env \in NVMLSensorEnv : nvml_get_stats(env)
    \/ \E env \in ThorSensorEnv : thor_get_stats(env)
    \/ \E env \in [sys : OneSys] : orin_get_stats(env)

SpecSensors == Init /\ [][NextSensors]_vars

(***************************************************************************)
(* Properties of the collectors                                            *)
(***************************************************************************)
UnavailableLabels == {"NVIDIA <name> (monitoring unavailable)",
                      "NVIDIA (NVML unavailable)",
                      "Jetson Thor (monitoring unavailable)"}

ZeroedAccelerator(st) ==
    /\ st.gpu_percent = 0
    /\ st.vram_used_gb = 0
    /\ st.vram_total_gb = 0
    /\ st.vram_percent = 0

\* C8: after the poll whose query failed the collector stays unavailable, every
\* later poll returns zeroed accelerator fields under a label stating
\* unavailability, and the backend is not queried again
C8_UnavailableIsPermanent ==
    query_failed.poll > 0 =>
        /\ ~mon.available
        /\ backend_calls = query_failed.calls
        /\ polls > query_failed.poll =>
              /\ ZeroedAccelerator(last_stats)
              /\ last_stats.platform \in UnavailableLabels

\* a collector that had answered polls failed and was polled again
C8_Witness ==
    /\ query_failed.poll > 1
    /\ polls > query_failed.poll
    /\ successes # <<>>

\* C9: every poll made while the backend is marked unavailable appends the
\* snapshot it returns to the four history buffers
C9_UnavailablePollAppends ==
    [][(polls' = polls + 1 /\ ~mon.available)
          => history' = update_history(history, last_stats', mon.history_size)]_vars

Min(a, b) == IF a <= b THEN a ELSE b

LastN(q, n) == SubSeq(q, Len(q) - n + 1, Len(q))

\* C10: after N successful polls with capacity C each sequence of get_history()
\* is the last min(N, C) samples, oldest first
C10_HistoryIsLastSamples ==
    mon.kind # "none" =>
        LET n == Min(Len(successes), mon.history_size)
            col(f(_)) == LastN([i \in 1..Len(successes) |-> f(successes[i])], n)
            gpu(x) == x.gpu
            vram(x) == x.vram
            cpu(x) == x.cpu
            ram(x) == x.ram
        IN /\ get_history.gpu_util = col(gpu)
           /\ get_history.vram_used = col(vram)
           /\ get_history.cpu_util = col(cpu)
           /\ get_history.ram_used = col(ram)

\* more successful polls than the capacity holds, with the order visible
C10_Witness ==
    /\ mon.history_size = 2
    /\ Len(successes) > 2
    /\ Len(history.gpu_util) = 2
    /\ history.gpu_util[1] # history.gpu_util[2]
    /\ successes[1].gpu = history.gpu_util[2]

\* labels of snapshots whose query completed
LiveLabels == {"NVIDIA (NVML)", "Jetson Thor (jtop)", "Jetson Thor (nvhost_podgov)",
               "Jetson Orin (tegrastats)"}

Last(q) == q[Len(q)]

HistoryEndsWith(h, st) ==
    /\ Len(h.gpu_util) > 0 /\ Last(h.gpu_util) = st.gpu_percent
    /\ Len(h.vram_used) > 0 /\ Last(h.vram_used) = st.vram_used_gb
    /\ Len(h.cpu_util) > 0 /\ Last(h.cpu_util) = st.cpu_percent
    /\ Len(h.ram_used) > 0 /\ Last(h.ram_used) = st.ram_used_gb

\* C11: for every backend variant, a poll whose query completed leaves the
\* values of the snapshot it returns as the last elements of the four histories
C11_SuccessfulPollAppends ==
    [][(polls' = polls + 1 /\ last_stats'.platform \in LiveLabels
           /\ mon.history_size > 0)
          => HistoryEndsWith(history', last_stats')]_vars

\* C12: a later get_stats() does not change sequences get_history() returned
\* earlier; get_history() and a caller changing what it was given leave the
\* four buffers as they are, so a later get_history() returns their content
C12_HistoryReturnedByValue ==
    [][/\ polls' # polls => held'.value = held.value
       /\ (polls' = polls /\ held' # held) => history' = history
       /\ (polls' = polls /\ held' # held /\ ~held'.mutated)
             => held'.value = history]_vars

\* the caller changed its copy and a later poll changed the buffers
C12_Witness ==
    /\ held.mutated
    /\ history.gpu_util # <<>>
    /\ Len(held.value.gpu_util) = Len(history.gpu_util)
    /\ held.value.gpu_util # history.gpu_util

\* C13: whichever way a variant's handle initialisation fails, the constructor
\* completes without raising and records available = FALSE, and the polls that
\* follow return a fallback snapshot without raising or calling the backend
C13_InitFailureIsNonFatal ==
    /\ construction # "raised"
    /\ construction = "init_failed" => ~mon.available
    /\ (construction = "init_failed" /\ polls >= 1)
          => /\ backend_calls = 0
             /\ last_stats.platform \in UnavailableLabels
             /\ ~escaped

SysFallback == get_cpu_ram_stats(FALSE, 0, 0)

\* C14: get_stats(), get_history() and cleanup() return normally whatever
\* fails underneath; a failed accelerator query or CPU/RAM read shows up as
\* fallback values in the snapshot the poll returns
C14_NothingPropagates ==
    /\ ~escaped
    /\ (polls >= 1 /\ last_sys = SysFallback)
          => \A f \in DOMAIN SysFallback : last_stats[f] = SysFallback[f]
    /\ (polls >= 1 /\ query_failed.poll = polls) => ZeroedAccelerator(last_stats)

\* a release that failed, then a poll whose accelerator query and CPU/RAM
\* read both failed
C14_Witness ==
    /\ release_calls.failed
    /\ polls >= 1
    /\ query_failed.poll = polls
    /\ last_sys = SysFallback
    /\ held.taken

\* C15: no exception leaves recv, whichever of its steps fails
C15_RecvNeverRaises == recv_result # "raised"

SysFields == {"cpu_percent", "cpu_model", "ram_used_gb", "ram_total_gb",
              "ram_percent", "hostname"}

\* C16: the snapshot of every poll, in every availability state of every
\* variant, carries a platform label and the CPU/RAM fields read in that poll
C16_SnapshotCarriesSystemFields ==
    polls >= 1 =>
       /\ "platform" \in DOMAIN last_stats
       /\ last_stats.platform \in LiveLabels \cup UnavailableLabels \cup {"Jetson Thor (error)"}
       /\ \A f \in SysFields :
             f \in DOMAIN last_stats /\ last_stats[f] = last_sys[f]

\* the poll whose accelerator query failed still reports the CPU/RAM reading
C16_Witness ==
    /\ polls >= 1
    /\ query_failed.poll = polls
    /\ last_stats.platform \in UnavailableLabels
    /\ last_sys = get_cpu_ram_stats(TRUE, 20, 5)
    /\ last_stats.cpu_percent = 20

\* C17: a backend name given to create_monitor decides the class returned,
\* whatever the marker and the probe say; without a name the marker selects
\* Thor, else a working probe selects NVML, else the fallback (NVML class,
\* unavailable) is returned
C17_ExplicitNameWins ==
    (request.platform # "unset" /\ construction # "raised") =>
       /\ request.platform = "nvidia" => mon.kind = "nvml"
       /\ request.platform = "jetson_thor" => mon.kind = "thor"
       /\ request.platform = "jetson_orin" => mon.kind = "orin"
       /\ (request.platform = "None" /\ request.marker) => mon.kind = "thor"
       /\ (request.platform = "None" /\ ~request.marker /\ request.probe # "thor")
             => mon.kind = "nvml"

\* C18: create_monitor("apple") returns an AppleSiliconMonitor
C18_AppleGetsAppleMonitor ==
    request.platform = "apple" => mon.kind = "apple"

\* C19: create_monitor returns a monitor object and never raises, whatever the
\* platform argument, the probes and the constructors do
C19_FactoryAlwaysReturns ==
    request.platform # "unset" =>
       /\ construction \in {"ok", "init_failed"}
       /\ mon.kind \in {"nvml", "thor", "orin"}

\* C20: a poll of a Thor collector whose jtop was initialised and whose jtop
\* read throws, while the sysfs counters are readable, returns the sysfs
\* snapshot with the real utilisation and leaves the collector available
C20_JtopFailureFallsBackToSysfs ==
    [][\A env \in ThorEnv :
          (/\ mon.kind = "thor" /\ mon.available
           /\ mon.use_jtop /\ mon.jtop_instance
           /\ ~env.query_ok /\ env.gpc # Unreadable
           /\ thor_get_stats(env))
          => /\ last_stats'.platform = "Jetson Thor (nvhost_podgov)"
             /\ last_stats'.gpu_percent = Max(env.gpc, env.nvd)
             /\ mon'.available]_vars

\* C21: a jtop read that throws during one poll of a Thor collector leaves the
\* jtop sub-mode switched on, so the next poll tries jtop again
C21_JtopFailureIsForThatCallOnly ==
    [][(mon.kind = "thor" /\ mon.use_jtop /\ mon.jtop_instance /\ polls' = polls + 1)
          => (mon'.use_jtop /\ mon'.jtop_instance)]_vars

\* C22: of two cleanup() calls made one right after the other, the second
\* does not release the backend handle again
C22_CleanupIsIdempotent == ~release_calls.again

\* the constructor acquired a backend handle: NVML initialised, or jtop started
HandleAcquired ==
    \/ mon.kind = "nvml" /\ construction = "ok"
    \/ mon.kind = "thor" /\ ~mon.has_sysfs_paths

\* C23: cleanup() releases the handle when the constructor acquired one, in
\* whatever state the polls have left the collector, and releases nothing when
\* it acquired none
C23_AcquiredHandleIsReleased ==
    [][(cleanups = 0 /\ cleanups' = 1)
          => release_calls'.n = IF HandleAcquired THEN 1 ELSE 0]_vars

AvailableLabels == {"NVIDIA (NVML)", "Jetson Thor (jtop)", "Jetson Thor (nvhost_podgov)"}

\* C25: in a snapshot of an available backend temp_c and power_w are None
\* exactly when the backend supplied no reading, and the supplied value,
\* zero included, otherwise
C25_UnsuppliedSensorIsNone ==
    (polls >= 1 /\ last_stats.platform \in AvailableLabels) =>
       /\ last_stats.temp_c = None <=> last_sensors.temp = Unreadable
       /\ last_sensors.temp # Unreadable => last_stats.temp_c = last_sensors.temp
       /\ last_stats.power_w = None <=> last_sensors.power \in {Unreadable, NoRails}
       /\ last_sensors.power \notin {Unreadable, NoRails}
             => last_stats.power_w = last_sensors.power \div 1000

SnapshotFields == {"platform", "gpu_name", "gpu_percent", "vram_used_gb", "vram_total_gb",
                   "vram_percent", "temp_c", "power_w", "cpu_model", "cpu_percent",
                   "ram_used_gb", "ram_total_gb", "ram_percent", "hostname"}

\* C26: every snapshot get_stats() returns has all fourteen fields
C26_SnapshotHasEveryField ==
    polls >= 1 => SnapshotFields \subseteq DOMAIN last_stats

\* C27: get_cpu_model() returns a non-empty string and does not raise,
\* whatever the platform and whatever its source holds or fails with
C27_CpuModelIsNonEmpty ==
    cpu_probe.called => (~cpu_probe.raised /\ Len(cpu_probe.result) > 0)

\* C28: get_stats(), get_history() and cleanup() on one collector leave the
\* buffers, availability flag and error counters of the other collector as
\* they were
C28_InstancesDoNotInterfere ==
    [][/\ (polls' # polls \/ held' # held \/ cleanups' # cleanups)
             => (other'.mon = other.mon /\ other'.history = other.history)
       /\ other'.polls # other.polls => (mon' = mon /\ history' = history)]_vars

\* both collectors were polled and ended in different states
C28_Witness ==
    /\ polls >= 1 /\ other.polls >= 1 /\ cleanups >= 1 /\ held.taken
    /\ mon.history_size > 0 /\ other.mon.history_size > 0
    /\ history # other.history
    /\ mon.available # other.mon.available

\* the percentage the two counters of a pair stand for
CounterPercent(load, max) == IF max = 0 THEN 0 ELSE (load * 100) \div max

\* C29: a sysfs poll of a Thor collector whose GPC counters are readable
\* returns the sysfs snapshot, stays available and appends to the history,
\* whether or not the NVD counters can be read; gpu_percent is the GPC
\* percentage without NVD and the larger of the two with it, and a max
\* counter of 0 gives 0
C29_NvdFailureIsNotFatal ==
    [][(/\ mon.kind = "thor" /\ mon.available /\ ~mon.use_jtop /\ mon.has_sysfs_paths
        /\ polls' = polls + 1
        /\ last_sensors'.gpc # Unreadable /\ last_sensors'.gpc_max # Unreadable)
          => /\ mon'.available
             /\ last_stats'.platform = "Jetson Thor (nvhost_podgov)"
             /\ mon.history_size > 0 => HistoryEndsWith(history', last_stats')
             /\ last_stats'.gpu_percent =
                   IF last_sensors'.nvd = Unreadable
                     THEN CounterPercent(last_sensors'.gpc, last_sensors'.gpc_max)
                     ELSE Max(CounterPercent(last_sensors'.gpc, last_sensors'.gpc_max),
                              last_sensors'.nvd)]_vars

\* a sysfs snapshot with real utilisation taken while NVD could not be read
C29_Witness ==
    /\ mon.kind = "thor" /\ mon.available
    /\ last_stats.platform = "Jetson Thor (nvhost_podgov)"
    /\ last_sensors.nvd = Unreadable
    /\ last_stats.gpu_percent = 40
    /\ mon.history_size > 0 /\ Last(history.gpu_util) = 40

\* C30: every frame recv receives gets exactly one invocation of the text
\* callback, with the service's current response text and with the status
\* "Processing..." exactly when the service reports is_processing, whether or
\* not the frame is one that is dispatched
C30_CallbackOncePerFrame ==
    [][\A t \in 1..MaxTracks :
          track'[t].frame_count = track[t].frame_count + 1
          => LET s == vlm_service_of(t)
             IN /\ last_update'.track = t
                /\ last_update'.calls = 1
                /\ last_update'.text = svc[s].current_response
                /\ last_update'.text = svc'[s].current_response
                /\ (last_update'.status = "Processing...") = svc[s].is_processing
                /\ last_update'.status \in {"Processing...", "Ready"}]_vars

\* the callback of a dispatching frame, after frames that were not dispatched,
\* made while another track's inference was still outstanding
C30_Witness ==
    /\ last_update.calls = 1
    /\ last_update.track \in 1..MaxTracks
    /\ LET t == last_update.track
       IN /\ track[t].process_every_n_frames > 1
          /\ should_dispatch(track[t].frame_count, track[t].process_every_n_frames)
    /\ last_update.status = "Processing..."
    /\ last_update.text = svc[GlobalService].current_response

\* C31: a track's frame_count is the number of frames its recv has returned
\* and the track has dispatched floor(frame_count / K) inferences, however the
\* inferences complete; a recv whose source read raises changes neither
C31_CountAndDispatchesFollowFrames ==
    [][/\ \A t \in Tracks : track'[t].created =>
             Dispatched(t)' = track'[t].frame_count \div track'[t].process_every_n_frames
       /\ \A t \in Tracks : track'[t].frame_count # track[t].frame_count =>
             /\ recv_result' = "frame"
             /\ track'[t].frame_count = track[t].frame_count + 1
       /\ (recv_result' = recv_on_exception /\ recv_result # recv_on_exception) =>
             /\ track' = track
             /\ \A t \in Tracks : Dispatched(t)' = Dispatched(t)]_vars

\* the source read for frame 2K raised on a track that had received 2K - 1
\* frames and dispatched once, that inference answered
C31_Witness ==
    /\ recv_result = recv_on_exception
    /\ \E t \in Tracks :
          /\ track[t].frame_count = 2 * track[t].process_every_n_frames - 1
          /\ Dispatched(t) = 1
          /\ \E f \in FinishedOf(t) : f.outcome = "ok"

C33_FramesPassInOrder ==
    [][\A t \in Tracks :
          track'[t].frame_count # track[t].frame_count =>
             LET k == track[t].frame_count + 1
             IN /\ track'[t].frame_count = k
                /\ recv_result' = "frame"
                /\ delivered'.track = t
                /\ delivered'.pts = source_frame(t, k).pts
                /\ delivered'.time_base = source_frame(t, k).time_base
                /\ delivered'.img = source_frame(t, k).img
                /\ delivered.track = t =>
                      delivered.pts = source_frame(t, k - 1).pts]_vars

\* the second track's dispatched frame K returned with its own timing, after
\* the first track's frame
C33_Witness ==
    /\ delivered.track = 2
    /\ track[2].frame_count = track[2].process_every_n_frames
    /\ track[1].frame_count >= 1
    /\ delivered.pts = 1500 + track[2].frame_count * VideoPtime
    /\ \E i \in 1..Len(tasks) : tasks[i].track = 2

(***************************************************************************)
(* server.py: the WebSocket handler and the broadcast                      *)
(***************************************************************************)
Sockets == 1..MaxSockets

\* the handler is between websockets.add and the end of its finally block
HandlerRunning(w) == ws[w].phase \in {"greeting", "open"}

\* a finally block that forgets the discard
ws_handler_finally_mutant(set, w) == set

\* websocket_handler, the finally block: websockets.discard(ws)
ws_handler_finally(set, w) == set \ {w}

\* websocket_handler up to its first await after the handshake: ws.prepare,
\* which may raise before anything is added, then websockets.add(ws)
ws_prepare(w, ok) ==
    /\ ws[w].phase = "none"
    /\ IF ok
         THEN /\ websockets' = websockets \cup {w}
              /\ ws' = [ws EXCEPT ![w].phase = "greeting"]
         ELSE /\ websockets' = websockets
              /\ ws' = [ws EXCEPT ![w].phase = "done", ![w].exit = "prepare"]
    /\ UNCHANGED <<video_vars, monitor_vars, pc_vars>>

\* websocket_handler sending the initial status: on a working transport the
\* handler enters its read loop, otherwise send_json raises into the finally
ws_greet(w) ==
    /\ ws[w].phase = "greeting"
    /\ IF ws[w].alive
         THEN /\ ws' = [ws EXCEPT ![w].phase = "open"]
              /\ websockets' = websockets
         ELSE /\ ws' = [ws EXCEPT ![w].phase = "done", ![w].exit = "greeting"]
              /\ websockets' = ws_handler_finally(websockets, w)
    /\ UNCHANGED <<video_vars, monitor_vars, pc_vars>>

\* how the read loop ends: the client closes, an ERROR message is logged and
\* the closed socket ends the iteration, or the read raises
ExitPaths == {"close", "error", "exception"}

\* websocket_handler leaving its read loop
ws_exit(w, path) ==
    /\ ws[w].phase = "open"
    /\ path \in ExitPaths
    /\ ws' = [ws EXCEPT ![w].phase = "done", ![w].exit = path]
    /\ websockets' = ws_handler_finally(websockets, w)
    /\ UNCHANGED <<video_vars, monitor_vars, pc_vars>>

\* the connection under a running handler breaks; the handler has not yet
\* been told
ws_transport_dies(w) ==
    /\ HandlerRunning(w)
    /\ ws[w].alive
    /\ ws' = [ws EXCEPT ![w].alive = FALSE]
    /\ UNCHANGED <<video_vars, monitor_vars, websockets, pc_vars>>

\* whether asyncio.create_task(ws.send_str(message)) raises inside the try of
\* broadcast_text_update: the call only builds the coroutine and schedules
\* it, the send itself runs later in the task
create_task_raises(w) == FALSE

\* broadcast_text_update: the sockets collected in dead_websockets
dead_websockets == {w \in websockets : create_task_raises(w)}

\* broadcast_text_update(text, status), as recv calls it; the send task of a
\* socket whose transport is broken fails when it runs
broadcast_text_update ==
    /\ \A w \in websockets : ws[w].failed_sends < MaxFailedSends
    /\ ws' = [w \in Sockets |->
                IF w \in websockets /\ ~ws[w].alive
                  THEN [ws[w] EXCEPT !.failed_sends = @ + 1]
                  ELSE ws[w]]
    /\ websockets' = websockets \ dead_websockets
    /\ UNCHANGED <<video_vars, monitor_vars, pc_vars>>

\* C34: a WebSocket is in the active set exactly while its handler runs after
\* the handshake; every way out of the handler removes it, so no finished
\* handler leaves its connection behind
C34_ActiveSetIsRunningHandlers ==
    /\ \A w \in Sockets : w \in websockets <=> HandlerRunning(w)
    /\ \A w \in Sockets : ws[w].phase = "done" => w \notin websockets

\* one handler left on a failed initial send, another still runs and is in
\* the set, after a broadcast
C34_Witness ==
    /\ \E w \in Sockets : ws[w].phase = "done" /\ ws[w].exit = "greeting"
    /\ \E w \in Sockets : ws[w].phase = "open" /\ w \in websockets
                             /\ ws[w].failed_sends >= 1

\* C35: a WebSocket whose broadcast send failed is removed from the active
\* set by the broadcast, so no later broadcast finds it there and sends to it
\* again
C35_DeadSocketsAreRemoved ==
    \A w \in Sockets : ws[w].failed_sends <= 1

(***************************************************************************)
(* server.py: peer connections and shutdown                                *)
(***************************************************************************)
Peers == 1..MaxPeers

\* RTCPeerConnection.close(): the connection is closed; a connection that was
\* not closed before changes state, which schedules its handler
pc_close(c) == [c EXCEPT !.closed = TRUE, !.state = "closed",
                         !.pending = (c.pending \/ c.state # "closed")]

\* offer(): the peer connection is created and added to pcs. The handler runs
\* whenever a request arrives; nothing in it looks at a shutdown in progress
offer(p) ==
    /\ ~pc[p].created
    /\ shutdown.phase # "done"
    /\ pc' = [pc EXCEPT ![p] = [created |-> TRUE, state |-> "new",
                                closed |-> FALSE, pending |-> FALSE]]
    /\ pcs' = pcs \cup {p}
    /\ UNCHANGED <<video_vars, monitor_vars, ws_vars, shutdown>>

\* the transport reports a new connectionState of an open connection
pc_state_becomes(p, st) ==
    /\ pc[p].created /\ ~pc[p].closed
    /\ st \in {"connected", "failed"}
    /\ pc[p].state \in {"new", "connected"} /\ pc[p].state # st
    /\ pc' = [pc EXCEPT ![p].state = st, ![p].pending = TRUE]
    /\ UNCHANGED <<video_vars, monitor_vars, ws_vars, pcs, shutdown>>

\* on_connectionstatechange of pc p
on_connectionstatechange(p) ==
    /\ pc[p].pending
    /\ IF pc[p].state \in {"failed", "closed"}
         THEN /\ pc' = [pc EXCEPT ![p] = [pc_close(pc[p]) EXCEPT
                                             !.pending = (pc[p].state # "closed")]]
              /\ pcs' = pcs \ {p}
         ELSE /\ pc' = [pc EXCEPT ![p].pending = FALSE]
              /\ pcs' = pcs
    /\ UNCHANGED <<video_vars, monitor_vars, ws_vars, shutdown>>

\* on_shutdown up to its await: one close() call is collected for every
\* connection in pcs at that moment. With nothing collected the gather is
\* done at once and on_shutdown runs to its end without being suspended
on_shutdown_begin ==
    /\ shutdown.phase = "no"
    /\ shutdown' = IF pcs = {} THEN [phase |-> "done", coros |-> {}]
                               ELSE [phase |-> "closing", coros |-> pcs]
    /\ UNCHANGED <<video_vars, monitor_vars, ws_vars, pcs, pc>>

\* asyncio.gather running one of the collected close() calls
on_shutdown_close(p) ==
    /\ shutdown.phase = "closing"
    /\ p \in shutdown.coros
    /\ pc' = [pc EXCEPT ![p] = pc_close(pc[p])]
    /\ shutdown' = [shutdown EXCEPT !.coros = @ \ {p}]
    /\ UNCHANGED <<video_vars, monitor_vars, ws_vars, pcs>>

\* on_shutdown after the gather: pcs.clear()
on_shutdown_end ==
    /\ shutdown.phase = "closing"
    /\ shutdown.coros = {}
    /\ pcs' = {}
    /\ shutdown' = [shutdown EXCEPT !.phase = "done"]
    /\ UNCHANGED <<video_vars, monitor_vars, ws_vars, pc>>

\* C36: a peer connection stays in pcs from its creation until it has failed
\* or closed, and leaves it closed; once on_shutdown has completed pcs is
\* empty and every peer connection that was in it has been closed, also when
\* state-change handlers removed entries during the shutdown
C36_PeersClosedAndRemoved ==
    /\ \A p \in Peers : p \in pcs => pc[p].created
    /\ \A p \in Peers : (pc[p].created /\ p \notin pcs) => pc[p].closed
    /\ shutdown.phase = "done" =>
          /\ pcs = {}
          /\ \A p \in Peers : pc[p].created => pc[p].closed

Next ==
    \/ \E n \in ProcessEveryArgs : main(n)
    \/ \E t \in Tracks : on_track(t)
    \/ \E t \in Tracks : recv(t)
    \/ task_skip
    \/ task_start
    \/ \E c \in inflight : call_success(c)
    \/ \E c \in inflight : call_failure(c)

Spec == Init /\ [][Next]_vars

\* the frame path with steps of recv that raise
NextRecv ==
    \/ Next
    \/ \E t \in Tracks, stage \in RecvStages : recv_fails(t, stage)

SpecRecv == Init /\ [][NextRecv]_vars

\* the read of the source raises where the frame it would have delivered is
\* one recv dispatches: there a frame counted by mistake shows in the
\* dispatches as well
source_ends(t) ==
    /\ track[t].created
    /\ should_dispatch(track[t].frame_count + 1, track[t].process_every_n_frames)
    /\ recv_fails(t, "source")

\* the frame path with source reads that raise
NextSourceEnds ==
    \/ Next
    \/ \E t \in Tracks : source_ends(t)

SpecSourceEnds == Init /\ [][NextSourceEnds]_vars

\* the WebSocket handlers and the broadcasts recv makes
NextSockets ==
    \/ \E w \in Sockets, ok \in BOOLEAN : ws_prepare(w, ok)
    \/ \E w \in Sockets : ws_greet(w)
    \/ \E w \in Sockets, path \in ExitPaths : ws_exit(w, path)
    \/ \E w \in Sockets : ws_transport_dies(w)
    \/ broadcast_text_update

SpecSockets == Init /\ [][NextSockets]_vars

\* peer connections from offer to shutdown
NextPeers ==
    \/ \E p \in Peers : offer(p)
    \/ \E p \in Peers, st \in {"connected", "failed"} : pc_state_becomes(p, st)
    \/ \E p \in Peers : on_connectionstatechange(p)
    \/ on_shutdown_begin
    \/ \E p \in Peers : on_shutdown_close(p)
    \/ on_shutdown_end

SpecPeers == Init /\ [][NextPeers]_vars

====
